---------------------------- MODULE Spec2Model ----------------------------
(***************************************************************************)
(* AuthLedd: the Discord OAuth login gateway of src/auth_server.py with    *)
(* its stores (src/funcs/auth_store.py) and its provider client            *)
(* (src/funcs/discord_oauth.py).                                           *)
(*                                                                         *)
(* Text.  A Python str is a sequence of symbols.  A symbol is either one   *)
(* of the delimiter characters the code and urlparse look at (":", "/",    *)
(* "@", ".", "?", "#") or an atom: a maximal run of other characters,      *)
(* written as one TLA+ string.  Concatenation, startswith, endswith,       *)
(* split and find then are the sequence operations, computed below the     *)
(* way Python computes them.  None is the one-symbol sequence <<"None">>,  *)
(* an atom no URL of the model contains.                                   *)
(*                                                                         *)
(* Tokens, session ids, provider ids and codes are opaque TLA+ strings;    *)
(* an absent or empty query argument or cookie is "" (both are falsy in    *)
(* every test the handlers make).                                          *)
(***************************************************************************)
EXTENDS Integers, Sequences, FiniteSets, TLC

(***************************************************************************)
(* Bounds of the model.                                                    *)
(***************************************************************************)
\* Logins the model starts: each draws one state token.  A session needs a consumed
\* token and a suspended callback holds one, so this also bounds the sessions, the
\* clock readings and the callbacks in flight.
MaxTokens == 2
\* Subdomain labels in front of a host of the URL inputs.
MaxSubLabels == 1

(***************************************************************************)
(* Python str operations on symbol sequences.                              *)
(***************************************************************************)
None == <<"None">>

Truthy(s) == s /= None /\ s /= <<>>

\* a or b or c, on Optional[str]
Or3(a, b, c) == IF Truthy(a) THEN a ELSE IF Truthy(b) THEN b ELSE c

LowerSym(c) ==
    CASE c = "HTTPS" -> "https"
      [] c = "LEDD"  -> "ledd"
      [] c = "LIVE"  -> "live"
      [] c = "EVIL"  -> "evil"
      [] OTHER       -> c

Lower(s) == [i \in 1..Len(s) |-> LowerSym(s[i])]

StartsWith(s, pre) ==
    /\ Len(pre) <= Len(s)
    /\ SubSeq(s, 1, Len(pre)) = pre

EndsWith(s, suf) ==
    /\ Len(suf) <= Len(s)
    /\ SubSeq(s, Len(s) - Len(suf) + 1, Len(s)) = suf

\* s.find(c): index of the first occurrence of symbol c in s, 0 when absent
Find(s, c) ==
    IF \E i \in 1..Len(s) : s[i] = c
    THEN CHOOSE i \in 1..Len(s) : s[i] = c /\ \A j \in 1..(i - 1) : s[j] /= c
    ELSE 0

\* s.split(c)[0]
SplitFirst(s, c) == IF Find(s, c) = 0 THEN s ELSE SubSeq(s, 1, Find(s, c) - 1)

Delims == {":", "/", "@", ".", "?", "#"}

\* str.isalpha() on the first character: atoms of the model that start with a letter
AlphaAtoms == {"https", "HTTPS", "javascript", "ledd", "LEDD", "live", "LIVE",
               "evil", "EVIL", "evilledd", "example", "sub", "auth", "u", "x", "dash",
               "me"}

\* urllib.parse.scheme_chars: letters, digits, "+", "-", "."
SchemeSym(c) == c \notin (Delims \ {"."})

(***************************************************************************)
(* urllib.parse.urlparse: the scheme and netloc it returns.                *)
(***************************************************************************)
HasScheme(url) ==
    LET i == Find(url, ":")
    IN  /\ i > 1
        /\ url[1] \in AlphaAtoms
        /\ \A k \in 1..(i - 1) : SchemeSym(url[k])

UrlScheme(url) ==
    IF HasScheme(url) THEN Lower(SubSeq(url, 1, Find(url, ":") - 1)) ELSE <<>>

AfterScheme(url) ==
    IF HasScheme(url) THEN SubSeq(url, Find(url, ":") + 1, Len(url)) ELSE url

\* _splitnetloc(url, 2): the netloc ends at the first of "/", "?", "#"
NetlocEnd(rest) ==
    LET stops == {i \in 3..Len(rest) : rest[i] \in {"/", "?", "#"}}
    IN  IF stops = {} THEN Len(rest)
        ELSE (CHOOSE i \in stops : \A j \in stops : i <= j) - 1

UrlNetloc(url) ==
    LET rest == AfterScheme(url)
    IN  IF StartsWith(rest, <<"/", "/">>) THEN SubSeq(rest, 3, NetlocEnd(rest)) ELSE <<>>

urlparse(url) == [scheme |-> UrlScheme(url), netloc |-> UrlNetloc(url)]


(***************************************************************************)
(* Configuration (environment variables, read on every request but fixed   *)
(* for the life of the process) and the state of the program.              *)
(***************************************************************************)
VARIABLES
    env_hosts,     \* AUTH_ALLOWED_RETURN_HOSTS, split at ","
    db_ready,      \* app.ctx.db holds a database handle (setup_db)
    creds,         \* DISCORD_CLIENT_ID and DISCORD_CLIENT_SECRET are both set
    now,           \* datetime.now(timezone.utc) at the latest call that read it, in ticks
    oauth_states,  \* collection oauth_states: set of documents
    users,         \* collection users
    sessions,      \* collection sessions
    cb,            \* per worker: the discord_callback coroutine suspended at an await
    issued,        \* history: state tokens secrets.token_urlsafe(24) has returned
    consumes,      \* history: per token, how often consume_oauth_state returned its document
    created,       \* history: session documents new_session has inserted, each with
                   \* the state token of the callback that made it
    failed,        \* history: login attempts (state tokens) for which a callback answered
                   \* with a failure, and whether the state was consumed by then
    gone,          \* history: session ids removed by delete_session or by the TTL index
    last           \* the handler step just taken: operation, request, response, and
                   \* what raised in it ("storage": a pymongo call; "exchange", "fetch":
                   \* the provider call)

vars == <<env_hosts, db_ready, creds, now, oauth_states, users, sessions,
          cb, issued, consumes, created, failed, gone, last>>

LeddLive == <<"ledd", ".", "live">>

\* _allowed_return_hosts(): entries stripped, lowercased, empty ones dropped
_allowed_return_hosts ==
    LET kept == SelectSeq(env_hosts, LAMBDA h : h /= <<>>)
    IN  [i \in 1..Len(kept) |-> Lower(kept[i])]

_is_allowed_redirect_url(url) ==
    LET p == urlparse(url)
        host == Lower(SplitFirst(p.netloc, ":"))
    IN  /\ p.scheme /= <<>>
        /\ p.netloc /= <<>>
        /\ \E i \in 1..Len(_allowed_return_hosts) :
              \/ host = _allowed_return_hosts[i]
              \/ EndsWith(host, <<".">> \o _allowed_return_hosts[i])

\* the site root in place of /me
FallbackRoot == <<"https", ":", "/", "/">> \o _allowed_return_hosts[1] \o <<"/">>

\* lines 100 and 110: f"https://{_allowed_return_hosts()[0]}/me"
Fallback == <<"https", ":", "/", "/">> \o _allowed_return_hosts[1] \o <<"/", "me">>

\* the branch of lines 103-104 left out
_pick_continue_url_no_relative(continue, x_continue, referer) ==
    LET provided == Or3(continue, x_continue, referer)
    IN  IF ~Truthy(provided) THEN Fallback
        ELSE IF _is_allowed_redirect_url(provided) THEN provided
        ELSE Fallback

\* line 103 without its second test
_pick_continue_url_any_slash(continue, x_continue, referer) ==
    LET provided == Or3(continue, x_continue, referer)
    IN  IF ~Truthy(provided) THEN Fallback
        ELSE IF StartsWith(provided, <<"/">>)
             THEN <<"https", ":", "/", "/">> \o _allowed_return_hosts[1] \o provided
        ELSE IF _is_allowed_redirect_url(provided) THEN provided
        ELSE Fallback

\* every source is tried in turn until one is accepted
_pick_continue_url_first_valid(continue, x_continue, referer) ==
    LET ok(v) == Truthy(v) /\ _is_allowed_redirect_url(v)
    IN  IF Truthy(continue) /\ StartsWith(continue, <<"/">>)
              /\ ~StartsWith(continue, <<"/", "/">>)
        THEN <<"https", ":", "/", "/">> \o _allowed_return_hosts[1] \o continue
        ELSE IF ok(continue) THEN continue
        ELSE IF ok(x_continue) THEN x_continue
        ELSE IF ok(referer) THEN referer
        ELSE Fallback

_pick_continue_url(continue, x_continue, referer) ==
    LET provided == Or3(continue, x_continue, referer)
    IN  IF ~Truthy(provided) THEN Fallback
        ELSE IF StartsWith(provided, <<"/">>) /\ ~StartsWith(provided, <<"/", "/">>)
             THEN <<"https", ":", "/", "/">> \o _allowed_return_hosts[1] \o provided
        ELSE IF _is_allowed_redirect_url(provided) THEN provided
        ELSE Fallback

\* the request's hints win over the stored value
continue_url_request_first(stored, continue, x_continue, referer) ==
    IF Truthy(Or3(continue, x_continue, referer))
    THEN _pick_continue_url(continue, x_continue, referer)
    ELSE IF stored /= None /\ _is_allowed_redirect_url(stored) THEN stored
    ELSE Fallback

\* lines 198-201: stored if isinstance(stored, str) and is_allowed(stored),
\* else _pick_continue_url(request)
continue_url(stored, continue, x_continue, referer) ==
    IF stored /= None /\ _is_allowed_redirect_url(stored) THEN stored
    ELSE _pick_continue_url(continue, x_continue, referer)

(***************************************************************************)
(* Value spaces.                                                           *)
(***************************************************************************)
TokenNames == <<"t1", "t2", "t3", "t4">>
Tokens == {TokenNames[i] : i \in 1..MaxTokens}

SidNames == <<"s1", "s2", "s3", "s4">>
Sids == {SidNames[i] : i \in 1..MaxTokens}

\* coroutines of discord_callback that can be suspended at once
Workers == 1..MaxTokens

NameIndex(n) ==
    CHOOSE i \in 1..Len(TokenNames) : TokenNames[i] = n \/ SidNames[i] = n

NameLe(k, m) == NameIndex(k) <= NameIndex(m)

\* what the provider's token endpoint answers with status 200
TokenResponses ==
    {[access_token |-> "a1", refresh_token |-> "r1", expires_in |-> "604800",
      scope |-> "identify", token_type |-> "Bearer"]}

\* what the provider's /users/@me answers with status 200
Profiles ==
    {[id |-> "123", username |-> "alice", global_name |-> "Alice", avatar |-> "av1",
      discriminator |-> "0"],
     [id |-> "123", username |-> "alice2", global_name |-> "Alice", avatar |-> "av2",
      discriminator |-> "0"],
     [id |-> "456", username |-> "bob", global_name |-> "Bob", avatar |-> "av3",
      discriminator |-> "0"]}

(***************************************************************************)
(* src/funcs/auth_store.py.  A collection is the set of its documents; a   *)
(* find returns the set of the (at most one) document it found.  The       *)
(* created_at of a state or session document only feeds the TTL index,     *)
(* which is the ExpireState and ExpireSession actions below.               *)
(***************************************************************************)
save_oauth_state(S, state, continue_to) ==
    S \cup {[state |-> state, continue |-> continue_to]}

\* find_one in place of find_one_and_delete
consume_oauth_state_find_only(S, state) ==
    LET m == {d \in S : d.state = state}
    IN  IF m = {} THEN [found |-> {}, rest |-> S]
        ELSE [found |-> {CHOOSE d \in m : TRUE}, rest |-> S]

\* find_one_and_delete: one atomic operation of the store
consume_oauth_state(S, state) ==
    LET m == {d \in S : d.state = state}
    IN  IF m = {} THEN [found |-> {}, rest |-> S]
        ELSE LET d == CHOOSE d \in m : TRUE
             IN  [found |-> {d}, rest |-> S \ {d}]

find_user(U, discord_id) ==
    LET m == {u \in U : u.discord_id = discord_id}
    IN  IF m = {} THEN {} ELSE {CHOOSE u \in m : TRUE}

\* insert_one in place of the upsert
update_one_insert(U, discord_user, token_info, t) ==
    U \cup {[discord_id |-> discord_user.id,
             username |-> discord_user.username,
             global_name |-> discord_user.global_name,
             avatar |-> discord_user.avatar,
             discriminator |-> discord_user.discriminator,
             updated_at |-> t,
             token |-> token_info,
             created_at |-> t]}

\* created_at among the fields of $set
update_one_set_created(U, discord_user, token_info, t) ==
    (U \ find_user(U, discord_user.id)) \cup
        {[discord_id |-> discord_user.id,
          username |-> discord_user.username,
          global_name |-> discord_user.global_name,
          avatar |-> discord_user.avatar,
          discriminator |-> discord_user.discriminator,
          updated_at |-> t,
          token |-> token_info,
          created_at |-> t]}

\* update_one(..., {$set: profile, $setOnInsert: {created_at: now}}, upsert=True)
update_one_upsert(U, discord_user, token_info, t) ==
    LET id == discord_user.id
        old == find_user(U, id)
        profile(created_at) ==
            [discord_id |-> id,
             username |-> discord_user.username,
             global_name |-> discord_user.global_name,
             avatar |-> discord_user.avatar,
             discriminator |-> discord_user.discriminator,
             updated_at |-> t,
             token |-> token_info,
             created_at |-> created_at]
    IN  IF old = {} THEN U \cup {profile(t)}
        ELSE LET o == CHOOSE u \in old : TRUE
             IN  (U \ {o}) \cup {profile(o.created_at)}

upsert_discord_user(U, discord_user, token_info, t) ==
    LET U2 == update_one_upsert(U, discord_user, token_info, t)
    IN  [users |-> U2, doc |-> find_user(U2, discord_user.id)]

new_session(S, session_id, discord_id) ==
    S \cup {[session_id |-> session_id, discord_id |-> discord_id]}

find_session(S, session_id) ==
    LET m == {d \in S : d.session_id = session_id}
    IN  IF m = {} THEN {} ELSE {CHOOSE d \in m : TRUE}

get_user_by_session(S, U, session_id) ==
    LET sess == find_session(S, session_id)
    IN  IF sess = {} THEN {}
        ELSE find_user(U, (CHOOSE d \in sess : TRUE).discord_id)

\* the session is found and reported deleted, and stays
delete_session_kept(S, session_id) ==
    [sessions |-> S, deleted |-> find_session(S, session_id) /= {}]

\* delete_many on the identity of the session
delete_session_of_identity(S, session_id) ==
    LET sess == find_session(S, session_id)
    IN  [sessions |-> {d \in S : \A x \in sess : d.discord_id /= x.discord_id},
         deleted |-> sess /= {}]

\* return True in place of res.deleted_count > 0
delete_session_always_true(S, session_id) ==
    [sessions |-> S \ find_session(S, session_id), deleted |-> TRUE]

delete_session(S, session_id) ==
    LET sess == find_session(S, session_id)
    IN  [sessions |-> S \ sess, deleted |-> sess /= {}]

(***************************************************************************)
(* src/funcs/discord_oauth.py: build_authorize_url.  The state token is    *)
(* URL-safe, so urlencode leaves it as it is.                              *)
(***************************************************************************)
AUTHORIZE_URL == <<"https", ":", "/", "/", "discord", ".", "com", "/", "oauth2", "/", "authorize">>

build_authorize_url(state) ==
    AUTHORIZE_URL \o <<"?", "client_id=ID", "&", "response_type=code", "&",
                       "redirect_uri=URI", "&", "scope=identify", "&", "state=", state>>

\* the state query parameter of an authorize URL
StateParam(url) == url[Len(url)]

(***************************************************************************)
(* Responses.                                                              *)
(***************************************************************************)
_cookie_settings ==
    [domain |-> ".ledd.live", secure |-> TRUE, httponly |-> TRUE,
     samesite |-> "Lax", path |-> "/"]

\* response.add_cookie(cookie_name, value, **cookie_opts)
SessionCookie(value) ==
    [name |-> "ledd_auth", value |-> value, expires |-> "unset", max_age |-> "unset",
     opts |-> _cookie_settings]

\* response.add_cookie(cookie_name, "", expires=1970-01-01, max_age=0, **cookie_opts)
ClearedCookie ==
    [name |-> "ledd_auth", value |-> "", expires |-> "1970-01-01", max_age |-> "0",
     opts |-> _cookie_settings]

Response(status, kind, body, location, cookies, data) ==
    [status |-> status, kind |-> kind, body |-> body, location |-> location,
     cookies |-> cookies, data |-> data]

json(body, status) == Response(status, "json", body, <<>>, <<>>, {})

html(body) == Response(200, "html", body, <<>>, <<>>, {})

redirect(to) == Response(302, "redirect", "", to, <<>>, {})

add_cookie(response, cookie) == [response EXCEPT !.cookies = Append(@, cookie)]

\* raise SanicException("Database not available", status_code=503)
DbNotAvailable == Response(503, "error", "Database not available", <<>>, <<>>, {})

\* an exception that leaves the handler: Sanic's default error response
Unhandled == Response(500, "error", "Internal Server Error", <<>>, <<>>, {})

NotConfigured == json("DISCORD_CLIENT_ID/SECRET not configured", 500)

\* what exchange_code_for_token and fetch_discord_user raise: RuntimeError with the
\* provider's status and body text, or aiohttp's transport error
UpstreamErrors == {"RuntimeError: 401 invalid_client", "ClientConnectorError"}

\* the exception's text goes out with the response
oauth_flow_failed_detailed(e) == Response(500, "json", "OAuth flow failed", <<>>, <<>>, {e})

\* lines 205-207: except Exception as e: logged, answered generically
oauth_flow_failed(e) == json("OAuth flow failed", 500)

\* the coroutine is suspended at an await: no response yet
Pending == Response(0, "pending", "", <<>>, <<>>, {})

(***************************************************************************)
(* Requests the model sends.                                               *)
(***************************************************************************)
UrlDash == <<"/", "dash">>
UrlSub == <<"https", ":", "/", "/", "sub", ".", "ledd", ".", "live", "/", "dash">>
UrlEvil == <<"https", ":", "/", "/", "evil", ".", "example", "/">>
UrlUserinfo ==
    <<"https", ":", "/", "/", "ledd", ".", "live", ":", "x", "@", "evil", ".", "example", "/">>

\* the default of AUTH_ALLOWED_RETURN_HOSTS (line 78)
DefaultHosts == <<LeddLive>>

Hints(continue, x_continue, referer) ==
    [continue |-> continue, x_continue |-> x_continue, referer |-> referer]

LoginRequests ==
    {Hints(None, None, None), Hints(UrlDash, None, UrlEvil), Hints(UrlUserinfo, None, None),
     Hints(<<>>, UrlSub, UrlEvil)}

CallbackArgs(code, state, error, continue) ==
    [code |-> code, state |-> state, error |-> error, continue |-> continue,
     x_continue |-> None, referer |-> None]

CallbackRequests ==
    {CallbackArgs("abc", t, "", UrlDash) : t \in Tokens}
    \cup {CallbackArgs("abc", t, "access_denied", None) : t \in Tokens}
    \cup {CallbackArgs("", t, "", None) : t \in Tokens}
    \cup {CallbackArgs("abc", "", "", None)}

LogoutArgs(cookie, continue, referer, accept_html) ==
    [cookie |-> cookie, continue |-> continue, referer |-> referer,
     accept_html |-> accept_html]

LogoutRequests ==
    {LogoutArgs(c, None, None, FALSE) : c \in Sids \cup {""}}
    \cup {LogoutArgs("", UrlSub, None, FALSE), LogoutArgs("", None, UrlEvil, TRUE)}

MeRequests == [cookie : Sids \cup {""}]

\* secrets.token_urlsafe: a value never returned before.  The values are opaque,
\* so the model takes the first unused name; none is left when the bound is reached.
token_urlsafe(names, used) ==
    {n \in names : /\ n \notin used
                   /\ \A m \in names \ used : NameLe(n, m)}

Idle == [pc |-> "idle", args |-> <<>>, state_doc |-> {}, token |-> {}]

\* Coroutine slots are interchangeable: a new request takes the first idle one.
FirstIdle(w) == cb[w].pc = "idle" /\ \A v \in 1..(w - 1) : cb[v].pc /= "idle"

Min(a, b) == IF a < b THEN a ELSE b

config == <<env_hosts, db_ready, creds>>

\* The failure a step answers with, for the login attempt of the request's state
\* token: before the state is consumed (lines 160 and 162, the state document still
\* there) or after it (line 207).
Failure(op, args, resp, raised) ==
    IF /\ op = "discord_callback"
       /\ resp \in {html("Discord error"), json("Missing code or state", 400)}
       /\ \E d \in oauth_states : d.state = args.state
    THEN {[state |-> args.state, at |-> "before_consume"]}
    ELSE IF op \in {"discord_callback/token", "discord_callback/profile"} /\ raised /= "none"
    THEN {[state |-> args.state, at |-> "after_consume"]}
    ELSE {}

\* What a step leaves in last; pre is the content of the stores before the step.
Reply(op, w, args, resp, raised, got) ==
    /\ failed' = failed \cup Failure(op, args, resp, raised)
    /\ last' = [op |-> op, w |-> w, args |-> args, resp |-> resp, raised |-> raised,
                got |-> got,
                doc |-> IF w = 0 THEN {} ELSE cb[w].state_doc,
                pre |-> [oauth_states |-> oauth_states, users |-> users,
                         sessions |-> sessions]]

Init ==
    /\ env_hosts = DefaultHosts
    /\ db_ready \in BOOLEAN
    /\ creds \in BOOLEAN
    /\ now = 0
    /\ oauth_states = {}
    /\ users = {}
    /\ sessions = {}
    /\ cb = [w \in Workers |-> Idle]
    /\ issued = {}
    /\ consumes = [t \in Tokens |-> 0]
    /\ created = {}
    /\ failed = {}
    /\ gone = {}
    /\ last = [op |-> "init", w |-> 0, args |-> <<>>, resp |-> Pending, raised |-> "none",
               got |-> {}, doc |-> {},
               pre |-> [oauth_states |-> {}, users |-> {}, sessions |-> {}]]

(***************************************************************************)
(* GET /discord/login.  fault: the insert_one of save_oauth_state raises   *)
(* (the persistence layer does not answer).                                *)
(***************************************************************************)
discord_login(args, fault) ==
    /\ UNCHANGED <<config, now, users, sessions, cb, consumes, created, gone>>
    /\ IF ~db_ready
       THEN /\ ~fault
            /\ Reply("discord_login", 0, args, DbNotAvailable, "none", {})
            /\ UNCHANGED <<oauth_states, issued>>
       ELSE IF ~creds
       THEN /\ ~fault
            /\ Reply("discord_login", 0, args, NotConfigured, "none", {})
            /\ UNCHANGED <<oauth_states, issued>>
       ELSE LET continue_to == _pick_continue_url(args.continue, args.x_continue, args.referer)
            IN  \E state \in token_urlsafe(Tokens, issued) :
                  /\ issued' = issued \cup {state}
                  /\ IF fault
                     THEN /\ Reply("discord_login", 0, args, Unhandled, "storage", {})
                          /\ UNCHANGED oauth_states
                     ELSE /\ oauth_states' = save_oauth_state(oauth_states, state, continue_to)
                          /\ Reply("discord_login", 0, args,
                                   redirect(build_authorize_url(state)), "none", {})

(***************************************************************************)
(* GET /discord/callback, up to the first await.  fault: the               *)
(* find_one_and_delete of consume_oauth_state raises.  Only a callback     *)
(* that consumed a state is suspended and occupies a coroutine slot.       *)
(***************************************************************************)
\* the test of line 159 left out
provider_error_ignored(args) == FALSE

\* line 159: if error
provider_error(args) == args.error /= ""

\* if not state, in place of line 161
missing_params_state_only(args) == args.state = ""

\* line 161: if not code or not state
missing_params(args) == args.code = "" \/ args.state = ""

\* the test of line 165 left out
invalid_state_never(found) == FALSE

\* line 165: if not state_doc
invalid_state(found) == found = {}

CallbackStart(args, fault) ==
    /\ UNCHANGED <<config, now, users, sessions, issued, created, gone>>
    /\ IF ~db_ready
       THEN /\ ~fault
            /\ Reply("discord_callback", 0, args, DbNotAvailable, "none", {})
            /\ UNCHANGED <<oauth_states, cb, consumes>>
       ELSE IF ~creds
       THEN /\ ~fault
            /\ Reply("discord_callback", 0, args, NotConfigured, "none", {})
            /\ UNCHANGED <<oauth_states, cb, consumes>>
       ELSE IF provider_error(args)
       THEN /\ ~fault
            /\ Reply("discord_callback", 0, args, html("Discord error"), "none", {})
            /\ UNCHANGED <<oauth_states, cb, consumes>>
       ELSE IF missing_params(args)
       THEN /\ ~fault
            /\ Reply("discord_callback", 0, args, json("Missing code or state", 400),
                     "none", {})
            /\ UNCHANGED <<oauth_states, cb, consumes>>
       ELSE IF fault
       THEN /\ Reply("discord_callback", 0, args, Unhandled, "storage", {})
            /\ UNCHANGED <<oauth_states, cb, consumes>>
       ELSE LET r == consume_oauth_state(oauth_states, args.state)
            IN  IF invalid_state(r.found)
                THEN /\ Reply("discord_callback", 0, args,
                              json("Invalid or expired state", 400), "none", {})
                     /\ UNCHANGED <<oauth_states, cb, consumes>>
                ELSE \E w \in Workers :
                     /\ FirstIdle(w)
                     /\ oauth_states' = r.rest
                     /\ consumes' = [consumes EXCEPT ![args.state] = Min(@ + 1, 2)]
                     /\ cb' = [cb EXCEPT ![w] = [pc |-> "exchange", args |-> args,
                                                  state_doc |-> r.found, token |-> {}]]
                     /\ Reply("discord_callback", w, args, Pending, "none", {})

(***************************************************************************)
(* await exchange_code_for_token(...) returns or raises                    *)
(***************************************************************************)
\* the except branch puts the state document back
CallbackTokenFailRestoring(w, e) ==
    /\ cb[w].pc = "exchange"
    /\ cb' = [cb EXCEPT ![w] = Idle]
    /\ oauth_states' = oauth_states \cup cb[w].state_doc
    /\ Reply("discord_callback/token", w, cb[w].args, oauth_flow_failed(e), "exchange", {e})
    /\ UNCHANGED <<config, now, users, sessions, issued, consumes, created, gone>>

CallbackTokenFail(w, e) ==
    /\ cb[w].pc = "exchange"
    /\ cb' = [cb EXCEPT ![w] = Idle]
    /\ Reply("discord_callback/token", w, cb[w].args, oauth_flow_failed(e), "exchange", {e})
    /\ UNCHANGED <<config, now, oauth_states, users, sessions, issued, consumes, created, gone>>

CallbackTokenOk(w, token) ==
    /\ cb[w].pc = "exchange"
    /\ cb' = [cb EXCEPT ![w].pc = "fetch", ![w].token = {token}]
    /\ Reply("discord_callback/token", w, cb[w].args, Pending, "none", {token})
    /\ UNCHANGED <<config, now, oauth_states, users, sessions, issued, consumes, created, gone>>

(***************************************************************************)
(* await fetch_discord_user(...) raises, or returns and the handler runs   *)
(* to its end: no await follows.  ops is the number of store operations    *)
(* (update_one, find_one, insert_one) that succeed before one raises; 3 is *)
(* all of them.  upsert_discord_user reads the clock, which has advanced    *)
(* since the last reading.                                                 *)
(***************************************************************************)
\* new_session called before upsert_discord_user
StoreOpsSessionFirst == <<"sessions.insert_one", "users.update_one", "users.find_one">>

\* the store operations of lines 179-191, in the order they are made
StoreOps == <<"users.update_one", "users.find_one", "sessions.insert_one">>

\* the except branch puts the state document back
CallbackProfileFailRestoring(w, e) ==
    /\ cb[w].pc = "fetch"
    /\ cb' = [cb EXCEPT ![w] = Idle]
    /\ oauth_states' = oauth_states \cup cb[w].state_doc
    /\ Reply("discord_callback/profile", w, cb[w].args, oauth_flow_failed(e), "fetch", {e})
    /\ UNCHANGED <<config, now, users, sessions, issued, consumes, created, gone>>

CallbackProfileFail(w, e) ==
    /\ cb[w].pc = "fetch"
    /\ cb' = [cb EXCEPT ![w] = Idle]
    /\ Reply("discord_callback/profile", w, cb[w].args, oauth_flow_failed(e), "fetch", {e})
    /\ UNCHANGED <<config, now, oauth_states, users, sessions, issued, consumes, created, gone>>

CallbackProfileOk(w, userinfo, ops) ==
    /\ cb[w].pc = "fetch"
    /\ now' = now + 1
    /\ cb' = [cb EXCEPT ![w] = Idle]
    /\ UNCHANGED <<config, oauth_states, issued, consumes, gone>>
    /\ LET args == cb[w].args
           token == CHOOSE x \in cb[w].token : TRUE
           state_doc == CHOOSE d \in cb[w].state_doc : TRUE
           up == upsert_discord_user(users, userinfo, token, now + 1)
           user_doc == CHOOSE u \in up.doc : TRUE
           target == continue_url(state_doc.continue, args.continue, args.x_continue,
                                  args.referer)
           done == {StoreOps[i] : i \in 1..ops}
           storage_failed == Reply("discord_callback/profile", w, args,
                           oauth_flow_failed("PyMongoError"), "storage", {userinfo})
       IN  /\ users' = IF "users.update_one" \in done THEN up.users ELSE users
           /\ IF "sessions.insert_one" \in done
              THEN \E session_id \in token_urlsafe(Sids, {d.session_id : d \in created}) :
                     /\ sessions' = new_session(sessions, session_id, user_doc.discord_id)
                     /\ created' = created \cup
                            {[session_id |-> session_id, discord_id |-> user_doc.discord_id,
                              state |-> args.state]}
                     /\ IF ops = Len(StoreOps)
                        THEN Reply("discord_callback/profile", w, args,
                                   add_cookie(redirect(target), SessionCookie(session_id)),
                                   "none", {userinfo})
                        ELSE storage_failed
              ELSE /\ UNCHANGED <<sessions, created>>
                   /\ storage_failed

(***************************************************************************)
(* GET /me                                                                 *)
(***************************************************************************)
\* the stored document returned whole
PublicProfileWhole(user) == user

\* lines 225-232: minimal public profile
PublicProfile(user) ==
    [discord_id |-> user.discord_id, username |-> user.username,
     global_name |-> user.global_name, avatar |-> user.avatar]

me(args, fault) ==
    /\ UNCHANGED <<config, now, oauth_states, users, sessions, cb, issued, consumes,
                   created, gone>>
    /\ IF ~db_ready THEN ~fault /\ Reply("me", 0, args, DbNotAvailable, "none", {})
       ELSE IF args.cookie = ""
       THEN ~fault /\ Reply("me", 0, args, json("Not authenticated", 401), "none", {})
       ELSE IF fault THEN Reply("me", 0, args, Unhandled, "storage", {})
       ELSE LET user == get_user_by_session(sessions, users, args.cookie)
            IN  IF user = {} THEN Reply("me", 0, args, json("Invalid session", 401), "none", {})
                ELSE Reply("me", 0, args,
                           Response(200, "json", "profile", <<>>, <<>>,
                                    {PublicProfile(CHOOSE u \in user : TRUE)}), "none", {})

(***************************************************************************)
(* POST /logout and GET /logout.  fault: the delete_one of delete_session  *)
(* raises.                                                                 *)
(***************************************************************************)
SiteRoot == <<"https", ":", "/", "/">> \o _allowed_return_hosts[1] \o <<"/">>

\* line 246 without the is_allowed test
LogoutPostResponseUnvalidated(args) ==
    LET continue_to == Or3(args.continue, args.referer, None)
    IN  IF Truthy(continue_to) THEN redirect(continue_to)
        ELSE IF args.accept_html THEN redirect(SiteRoot)
        ELSE json("ok", 200)

\* lines 244-252: the response POST /logout chooses
LogoutPostResponse(args) ==
    LET continue_to == Or3(args.continue, args.referer, None)
    IN  IF Truthy(continue_to) /\ _is_allowed_redirect_url(continue_to)
        THEN redirect(continue_to)
        ELSE IF args.accept_html THEN redirect(SiteRoot)
        ELSE json("ok", 200)

\* lines 268-271: the response GET /logout chooses
LogoutGetResponse(args) ==
    LET target == Or3(args.continue, args.referer, None)
    IN  IF target /= None /\ _is_allowed_redirect_url(target)
        THEN redirect(target)
        ELSE redirect(SiteRoot)

\* the response goes out as it is
expire_cookie_forgotten(response) == response

\* lines 254-255 and 272-273
expire_cookie(response) == add_cookie(response, ClearedCookie)

Logout(op, args, response, fault) ==
    /\ UNCHANGED <<config, now, oauth_states, users, cb, issued, consumes, created>>
    /\ IF ~db_ready
       THEN /\ ~fault
            /\ Reply(op, 0, args, DbNotAvailable, "none", {})
            /\ UNCHANGED <<sessions, gone>>
       ELSE IF args.cookie = ""
       THEN /\ ~fault
            /\ Reply(op, 0, args, expire_cookie(response), "none", {})
            /\ UNCHANGED <<sessions, gone>>
       ELSE IF fault
       THEN /\ Reply(op, 0, args, Unhandled, "storage", {})
            /\ UNCHANGED <<sessions, gone>>
       ELSE LET r == delete_session(sessions, args.cookie)
            IN  /\ sessions' = r.sessions
                /\ gone' = IF r.deleted THEN gone \cup {args.cookie} ELSE gone
                /\ Reply(op, 0, args, expire_cookie(response), "none", {r.deleted})

logout(args, fault) == Logout("logout", args, LogoutPostResponse(args), fault)

logout_get(args, fault) == Logout("logout_get", args, LogoutGetResponse(args), fault)

(***************************************************************************)
(* The store's TTL indexes (create_auth_indexes, lines 31 and 42): the     *)
(* store removes a document some time after its created_at.                *)
(***************************************************************************)
ExpireState ==
    /\ \E d \in oauth_states : oauth_states' = oauth_states \ {d}
    /\ Reply("ttl_state_10m", 0, <<>>, Pending, "none", {})
    /\ UNCHANGED <<config, now, users, sessions, cb, issued, consumes, created, gone>>

ExpireSession ==
    /\ \E d \in sessions :
          /\ sessions' = sessions \ {d}
          /\ gone' = gone \cup {d.session_id}
    /\ Reply("ttl_session", 0, <<>>, Pending, "none", {})
    /\ UNCHANGED <<config, now, oauth_states, users, cb, issued, consumes, created>>

Next ==
    \/ \E args \in LoginRequests, fault \in BOOLEAN : discord_login(args, fault)
    \/ \E args \in CallbackRequests, fault \in BOOLEAN : CallbackStart(args, fault)
    \/ \E w \in Workers, e \in UpstreamErrors : CallbackTokenFail(w, e)
    \/ \E w \in Workers, token \in TokenResponses : CallbackTokenOk(w, token)
    \/ \E w \in Workers, e \in UpstreamErrors : CallbackProfileFail(w, e)
    \/ \E w \in Workers, userinfo \in Profiles, ops \in 0..Len(StoreOps) :
          CallbackProfileOk(w, userinfo, ops)
    \/ \E args \in MeRequests, fault \in BOOLEAN : me(args, fault)
    \/ \E args \in LogoutRequests, fault \in BOOLEAN : logout(args, fault)
    \/ \E args \in LogoutRequests, fault \in BOOLEAN : logout_get(args, fault)
    \/ ExpireState
    \/ ExpireSession

Spec == Init /\ [][Next]_vars

(***************************************************************************)
(* The redirect validator as pure functions: the initial state draws the   *)
(* configuration and the three continuation sources, and one call of       *)
(* _is_allowed_redirect_url or of _pick_continue_url is applied to them.   *)
(* The URL inputs are put together from parts and handed over as flat      *)
(* text, which urlparse takes apart again.                                 *)
(***************************************************************************)
UpperLedd == <<"LEDD", ".", "LIVE">>
HostAuth == <<"auth", ".", "ledd", ".", "live">>

EnvConfigs == {DefaultHosts, <<HostAuth, <<>>, UpperLedd>>, <<<<"live">>>>}

RECURSIVE SubLabels(_)
SubLabels(k) == IF k = 0 THEN <<>> ELSE <<"sub", ".">> \o SubLabels(k - 1)

SchemeParts == {<<>>, <<"https", ":">>, <<"HTTPS", ":">>, <<"javascript", ":">>}
SlashParts == {<<>>, <<"/">>, <<"/", "/">>}
UserParts == {<<>>, <<"u", "@">>, <<"ledd", ".", "live", "@">>,
              <<"ledd", ".", "live", ":", "x", "@">>}
BaseHosts == {LeddLive, UpperLedd, <<"evil", ".", "example">>, <<"evilledd", ".", "live">>}
HostParts == {SubLabels(k) \o h : k \in 0..MaxSubLabels, h \in BaseHosts}
PortParts == {<<>>, <<":", "80">>}
PathParts == {<<>>, <<"/", "dash">>}

\* an authority: empty, a port alone, or [userinfo "@"] host [":" port]
Authorities ==
    PortParts \cup {us \o ho \o po : us \in UserParts, ho \in HostParts, po \in PortParts}

Urls ==
    {sc \o sl \o au \o pa :
        sc \in SchemeParts, sl \in SlashParts, au \in Authorities, pa \in PathParts}

UrlInputs ==
    {Hints(c, x, r) : c \in Urls \cup {None}, x \in {None, UrlSub}, r \in {None, UrlEvil}}

UrlReply(op, args, result) == last' = [op |-> op, args |-> args, result |-> result]

InitUrl ==
    /\ env_hosts \in EnvConfigs
    /\ db_ready = TRUE
    /\ creds = TRUE
    /\ now = 0
    /\ oauth_states = {}
    /\ users = {}
    /\ sessions = {}
    /\ cb = [w \in Workers |-> Idle]
    /\ issued = {}
    /\ consumes = [t \in Tokens |-> 0]
    /\ created = {}
    /\ failed = {}
    /\ gone = {}
    /\ \E args \in UrlInputs : last = [op |-> "input", args |-> args, result |-> <<>>]

IsAllowedCall ==
    /\ last.op = "input"
    /\ last.args.continue /= None
    /\ UrlReply("_is_allowed_redirect_url", last.args,
                _is_allowed_redirect_url(last.args.continue))
    /\ UNCHANGED <<config, now, oauth_states, users, sessions, cb, issued, consumes,
                   created, failed, gone>>

PickCall ==
    /\ last.op = "input"
    /\ UrlReply("_pick_continue_url", last.args,
                _pick_continue_url(last.args.continue, last.args.x_continue,
                                   last.args.referer))
    /\ UNCHANGED <<config, now, oauth_states, users, sessions, cb, issued, consumes,
                   created, failed, gone>>

\* what a state document can hold as continue: None (no such field), a URL that
\* login stored, and values that are not allowed (any more)
StoredValues == {None, UrlSub, UrlUserinfo, UrlEvil, UrlDash}

ContinueUrlCall ==
    /\ last.op = "input"
    /\ \E stored \in StoredValues :
          UrlReply("continue_url",
                   [stored |-> stored, continue |-> last.args.continue,
                    x_continue |-> last.args.x_continue, referer |-> last.args.referer],
                   continue_url(stored, last.args.continue, last.args.x_continue,
                                last.args.referer))
    /\ UNCHANGED <<config, now, oauth_states, users, sessions, cb, issued, consumes,
                   created, failed, gone>>

NextUrl == IsAllowedCall \/ PickCall \/ ContinueUrlCall

SpecUrl == InitUrl /\ [][NextUrl]_vars

(***************************************************************************)
(* Where a URL leads: the host of its authority (RFC 3986, 3.2), which is  *)
(* what follows the userinfo's "@" and precedes the port's ":".            *)
(***************************************************************************)
\* index of the last occurrence of symbol c in s, 0 when absent
RFind(s, c) ==
    IF \E i \in 1..Len(s) : s[i] = c
    THEN CHOOSE i \in 1..Len(s) : s[i] = c /\ \A j \in (i + 1)..Len(s) : s[j] /= c
    ELSE 0

Hostname(url) ==
    LET netloc == urlparse(url).netloc
        hostport == SubSeq(netloc, RFind(netloc, "@") + 1, Len(netloc))
    IN  Lower(SplitFirst(hostport, ":"))

HostAllowed(host) ==
    \E i \in 1..Len(_allowed_return_hosts) :
        \/ host = _allowed_return_hosts[i]
        \/ EndsWith(host, <<".">> \o _allowed_return_hosts[i])

FullyQualified(url) == urlparse(url).scheme /= <<>> /\ urlparse(url).netloc /= <<>>

FallbackUrl == <<"https", ":", "/", "/">> \o Lower(env_hosts[1]) \o <<"/", "me">>

\* C4: whatever the three sources hold, _pick_continue_url returns a fully-qualified
\* URL that leads to an allowed host or a subdomain of one, or the fixed fallback.
PickStaysOnAllowedHosts ==
    last.op = "_pick_continue_url" =>
        /\ FullyQualified(last.result)
        /\ HostAllowed(Hostname(last.result)) \/ last.result = FallbackUrl

\* C5: _is_allowed_redirect_url(url) is true exactly when url has a scheme and a host
\* and the host is an allowed host or a subdomain of one.
IsAllowedIffHostAllowed ==
    last.op = "_is_allowed_redirect_url" =>
        (last.result <=>
            /\ urlparse(last.args.continue).scheme /= <<>>
            /\ Hostname(last.args.continue) /= <<>>
            /\ HostAllowed(Hostname(last.args.continue)))

(***************************************************************************)
(* Properties of the handlers.  They read last: the step just taken, with  *)
(* the stores as they were before it (last.pre).                           *)
(***************************************************************************)
LiveIn(S, t) == \E d \in S : d.state = t

StoresUnchanged ==
    /\ oauth_states = last.pre.oauth_states
    /\ users = last.pre.users
    /\ sessions = last.pre.sessions

\* a callback in which no pymongo call raised
CallbackServed ==
    /\ last.op = "discord_callback"
    /\ db_ready /\ creds
    /\ last.raised = "none"

\* the callback went as far as consume_oauth_state (line 164)
ConsumeAttempt ==
    /\ CallbackServed
    /\ last.args.error = ""
    /\ last.args.code /= "" /\ last.args.state /= ""

InvalidState == json("Invalid or expired state", 400)

HeldBy(w) == {d.state : d \in cb[w].state_doc}

\* C1: consume_oauth_state returns the document of a saved token at most once: the
\* consume of a live token returns the stored document and removes it, a consumed
\* token is never in the store again, and every later consume of it finds nothing.
ConsumeAtMostOnce ==
    /\ \A t \in Tokens : consumes[t] <= 1
    /\ \A t \in Tokens : consumes[t] >= 1 => ~LiveIn(oauth_states, t)
    /\ (ConsumeAttempt /\ LiveIn(last.pre.oauth_states, last.args.state)) =>
          /\ last.resp = Pending
          /\ cb[last.w].state_doc =
                {d \in last.pre.oauth_states : d.state = last.args.state}
          /\ oauth_states = last.pre.oauth_states \ cb[last.w].state_doc
    /\ (ConsumeAttempt /\ consumes[last.args.state] = 1
           /\ ~LiveIn(last.pre.oauth_states, last.args.state)) =>
          last.resp = InvalidState

\* C1 witness: a token was consumed, and a later callback with it found nothing
ConsumedTwiceAsked ==
    /\ ConsumeAttempt
    /\ consumes[last.args.state] = 1
    /\ ~LiveIn(last.pre.oauth_states, last.args.state)
    /\ last.resp = InvalidState

\* C2: of two callbacks running at once for one live token exactly one obtains the
\* state document: no two suspended callbacks hold the same token, and a callback
\* that arrives while another one holds the token is answered not-found.
ConcurrentConsumeExclusive ==
    /\ \A v, w \in Workers :
          (v /= w /\ cb[v].pc /= "idle" /\ cb[w].pc /= "idle") =>
              HeldBy(v) \cap HeldBy(w) = {}
    /\ \A w \in Workers :
          (ConsumeAttempt /\ w /= last.w /\ cb[w].pc /= "idle"
             /\ last.args.state \in HeldBy(w)) =>
              last.resp = InvalidState

\* C2 witness: a callback holds the token at an await, the second one got not-found
SecondCallbackWhileFirstSuspended ==
    \E w \in Workers :
        /\ ConsumeAttempt
        /\ cb[w].pc /= "idle"
        /\ last.args.state \in HeldBy(w)
        /\ last.resp = InvalidState

\* C3: a callback with code and a state token that is not in the State Store (never
\* saved, consumed before, or expired) is answered 400 "Invalid or expired state",
\* the same in all three cases, changes no store and sets no cookie.
InvalidStateRejected ==
    (ConsumeAttempt /\ ~LiveIn(last.pre.oauth_states, last.args.state)) =>
        /\ last.resp = InvalidState
        /\ last.resp.cookies = <<>>
        /\ StoresUnchanged

\* C3 witness: the callback URL of a completed flow is replayed
ReplayAfterCompletedFlow ==
    /\ ConsumeAttempt
    /\ {t \in Tokens : consumes[t] = 1} = {last.args.state}
    /\ Cardinality(created) = 1
    /\ sessions = last.pre.sessions
    /\ last.resp = InvalidState

\* C3, the other two cases: a token that was never saved, and one that expired
NeverSavedRejected ==
    /\ ConsumeAttempt
    /\ last.args.state \notin issued
    /\ last.resp = InvalidState

ExpiredRejected ==
    /\ ConsumeAttempt
    /\ last.args.state \in issued
    /\ consumes[last.args.state] = 0
    /\ last.resp = InvalidState

\* C6: a session created by new_session resolves, through get_user_by_session,
\* to the identity it was created for as long as it has not been deleted and has
\* not expired; from its deletion on it resolves to nothing.
SessionResolvesUntilRemoved ==
    \A d \in created :
        LET user == get_user_by_session(sessions, users, d.session_id)
        IN  IF d.session_id \in gone
            THEN user = {}
            ELSE user /= {} /\ \A u \in user : u.discord_id = d.discord_id

\* C6 witness: logout has just deleted one session, another one still resolves
OneDeletedOneLive ==
    /\ last.op \in {"logout", "logout_get"}
    /\ last.args.cookie \in gone
    /\ \E d \in last.pre.sessions : d.session_id = last.args.cookie
    /\ \E d \in created : d.session_id \notin gone

\* the step in which fetch_discord_user returned a profile and no store call raised
CallbackCompleted ==
    /\ last.op = "discord_callback/profile"
    /\ last.got /= {}
    /\ last.raised = "none"

ProfileId == (CHOOSE g \in last.got : TRUE).id

\* C7: a callback with a code and a live state whose token exchange and profile
\* fetch succeed with profile id P ends with exactly one identity record with id P,
\* exactly one new session, which references P, and a redirect that sets the session
\* cookie to that session's id.
CallbackSuccessEndState ==
    CallbackCompleted =>
        LET new == sessions \ last.pre.sessions
        IN  /\ Cardinality({u \in users : u.discord_id = ProfileId}) = 1
            /\ last.pre.sessions \subseteq sessions
            /\ Cardinality(new) = 1
            /\ \A d \in new :
                  /\ d.discord_id = ProfileId
                  /\ last.resp.cookies = <<SessionCookie(d.session_id)>>
            /\ last.resp.kind = "redirect"
            /\ last.resp.status = 302

\* C7 witness: the callback of a second login of the same provider user completed
SecondLoginCompleted ==
    /\ CallbackCompleted
    /\ \E u \in last.pre.users : u.discord_id = ProfileId
    /\ \E d \in last.pre.sessions : d.discord_id = ProfileId

\* C8: a callback without error in which code or state is missing is answered 400,
\* changes no store (also when the state token it carries is live), suspends
\* nothing and sets no cookie.
MissingParamsNoEffect ==
    (CallbackServed /\ last.args.error = ""
       /\ (last.args.code = "" \/ last.args.state = "")) =>
        /\ last.resp = json("Missing code or state", 400)
        /\ last.resp.cookies = <<>>
        /\ StoresUnchanged

\* C8 witness: the code is missing and the state token of the request is live
CodeMissingStateLive ==
    /\ CallbackServed
    /\ last.args.error = ""
    /\ last.args.code = ""
    /\ LiveIn(oauth_states, last.args.state)

\* C9: a login with credentials configured and no continuation hint adds exactly one
\* state document, whose token is the state parameter of the redirect to the
\* provider's authorize URL and whose continuation URL is
\* https://<first allowed host>/me; it sets no cookie and changes no session or
\* identity.
LoginWithoutHint ==
    (/\ last.op = "discord_login"
     /\ db_ready /\ creds
     /\ last.raised = "none"
     /\ ~Truthy(last.args.continue)
     /\ ~Truthy(last.args.x_continue)
     /\ ~Truthy(last.args.referer)) =>
        LET new == oauth_states \ last.pre.oauth_states
        IN  /\ last.pre.oauth_states \subseteq oauth_states
            /\ Cardinality(new) = 1
            /\ \A d \in new :
                  /\ d.state = StateParam(last.resp.location)
                  /\ d.continue = FallbackUrl
                  /\ ~LiveIn(last.pre.oauth_states, d.state)
            /\ last.resp.kind = "redirect"
            /\ StartsWith(last.resp.location, AUTHORIZE_URL)
            /\ last.resp.cookies = <<>>
            /\ users = last.pre.users
            /\ sessions = last.pre.sessions

\* C9 witness: a second login without hint, while the first state is still live
SecondLoginWithoutHint ==
    /\ last.op = "discord_login"
    /\ last.args = Hints(None, None, None)
    /\ last.resp.kind = "redirect"
    /\ last.pre.oauth_states /= {}

\* C10: a logout, POST or GET, is answered with a redirect or with 200 JSON, and the
\* answer clears the session cookie (empty value, expiry in the past, the attributes
\* the cookie was set with), with or without a cookie in the request and whether or
\* not the session it names exists; without a cookie the Session Store is unchanged.
LogoutAlwaysClears ==
    (last.op \in {"logout", "logout_get"} /\ db_ready /\ last.raised = "none") =>
        /\ \/ last.resp.kind = "redirect" /\ last.resp.status = 302
           \/ last.resp.kind = "json" /\ last.resp.status = 200 /\ last.resp.body = "ok"
        /\ Len(last.resp.cookies) = 1
        /\ LET c == last.resp.cookies[1]
           IN  /\ c.name = SessionCookie("").name
               /\ c.value = ""
               /\ c.expires = "1970-01-01"
               /\ c.max_age = "0"
               /\ c.opts = SessionCookie("").opts
        /\ last.args.cookie = "" => sessions = last.pre.sessions
        /\ users = last.pre.users
        /\ oauth_states = last.pre.oauth_states

\* C10 witness: a logout without cookie while sessions exist
LogoutWithoutCookie ==
    /\ last.op \in {"logout", "logout_get"}
    /\ last.args.cookie = ""
    /\ sessions /= {}
    /\ last.resp.cookies = <<ClearedCookie>>

\* C10, second case: the cookie names a session that does not exist
LogoutUnknownSession ==
    /\ last.op \in {"logout", "logout_get"}
    /\ last.args.cookie /= ""
    /\ last.raised = "none"
    /\ \A d \in last.pre.sessions : d.session_id /= last.args.cookie
    /\ last.resp.cookies = <<ClearedCookie>>

\* The source _pick_continue_url reads: the first of the continue parameter, the
\* X-Continue header and the Referer header that is present and not empty.
Present(v) == v /= None /\ Len(v) > 0

Selected(args) ==
    IF Present(args.continue) THEN args.continue
    ELSE IF Present(args.x_continue) THEN args.x_continue
    ELSE IF Present(args.referer) THEN args.referer
    ELSE None

OnFirstHost(path) == <<"https", ":", "/", "/">> \o Lower(env_hosts[1]) \o path

IsRelativePath(v) == Present(v) /\ v[1] = "/" /\ (Len(v) = 1 \/ v[2] /= "/")

IsProtocolRelative(v) == Present(v) /\ Len(v) >= 2 /\ v[1] = "/" /\ v[2] = "/"

\* C12: when the selected value begins with "/" but not with "//",
\* _pick_continue_url returns https://<first allowed host> followed by the value
\* unchanged, whatever is_allowed would say of it.
RelativePathOnFirstHost ==
    (last.op = "_pick_continue_url" /\ IsRelativePath(Selected(last.args))) =>
        last.result = OnFirstHost(Selected(last.args))

\* C12 witness: /dash with auth.ledd.live as first allowed host
DashOnAuthHost ==
    /\ last.op = "_pick_continue_url"
    /\ env_hosts[1] = HostAuth
    /\ Selected(last.args) = <<"/", "dash">>
    /\ ~_is_allowed_redirect_url(Selected(last.args))
    /\ last.result = <<"https", ":", "/", "/", "auth", ".", "ledd", ".", "live", "/", "dash">>

\* C13: a selected value that begins with "//", whatever host follows, is not
\* mapped onto the first allowed host as a path and is rejected by is_allowed, so
\* _pick_continue_url returns the fallback https://<first allowed host>/me.
ProtocolRelativeFallsBack ==
    (last.op = "_pick_continue_url" /\ IsProtocolRelative(Selected(last.args))) =>
        /\ ~_is_allowed_redirect_url(Selected(last.args))
        /\ last.result /= OnFirstHost(Selected(last.args))
        /\ last.result = FallbackUrl

\* C13 witness: //ledd.live/dash, an allowed host, gives the fallback
ProtocolRelativeAllowedHost ==
    /\ last.op = "_pick_continue_url"
    /\ Selected(last.args) = <<"/", "/", "ledd", ".", "live", "/", "dash">>
    /\ last.result = FallbackUrl

\* C17: _pick_continue_url reads one source, the first present among continue,
\* X-Continue and Referer, and its result is a function of that value alone: the
\* fallback when none is present, the path on the first host or the value itself
\* when it validates, and the fallback when it does not, also when a source of
\* lower priority holds an allowed URL.
FirstPresentSourceDecides ==
    last.op = "_pick_continue_url" =>
        LET v == Selected(last.args)
        IN  IF v = None THEN last.result = FallbackUrl
            ELSE IF IsRelativePath(v) THEN last.result = OnFirstHost(v)
            ELSE IF _is_allowed_redirect_url(v) THEN last.result = v
            ELSE last.result = FallbackUrl

\* C17 witness: continue is refused while X-Continue holds an allowed URL
RefusedDespiteValidLowerSource ==
    /\ last.op = "_pick_continue_url"
    /\ last.args.continue = <<"https", ":", "/", "/", "evil", ".", "example", "/", "dash">>
    /\ last.args.x_continue = UrlSub
    /\ _is_allowed_redirect_url(last.args.x_continue)
    /\ last.result = FallbackUrl

\* C17, second case: an empty continue parameter hands over to X-Continue
EmptyContinueSkipped ==
    /\ last.op = "_pick_continue_url"
    /\ last.args.continue = <<>>
    /\ last.args.x_continue = UrlSub
    /\ last.args.referer = UrlEvil
    /\ last.result = UrlSub

\* C14: when the token exchange or the profile fetch of a callback that consumed a
\* state fails, the answer is a generic 500 that carries nothing of the provider's
\* status or text, no session is created, no cookie is set and the callback is
\* over; a failed token exchange also leaves the identities as they were.
UpstreamFailed ==
    /\ last.op \in {"discord_callback/token", "discord_callback/profile"}
    /\ last.raised \in {"exchange", "fetch"}

UpstreamFailureGeneric ==
    UpstreamFailed =>
        /\ last.got \subseteq UpstreamErrors /\ last.got /= {}
        /\ last.resp.status = 500
        /\ last.resp.kind = "json"
        /\ last.resp.body \notin last.got
        /\ last.resp.data \cap last.got = {}
        /\ last.resp.location = <<>>
        /\ last.resp.cookies = <<>>
        /\ sessions = last.pre.sessions
        /\ cb[last.w].pc = "idle"
        /\ last.raised = "exchange" => users = last.pre.users
        /\ consumes[last.args.state] = 1 /\ ~LiveIn(oauth_states, last.args.state)

\* C14 witness: the provider refused the code of a second login
ExchangeRefused ==
    /\ UpstreamFailed
    /\ last.raised = "exchange"
    /\ last.got = {"RuntimeError: 401 invalid_client"}
    /\ users /= {} /\ sessions /= {}

\* C14, second case: the profile fetch failed after the exchange succeeded
ProfileFetchFailed ==
    /\ UpstreamFailed
    /\ last.raised = "fetch"
    /\ last.resp = json("OAuth flow failed", 500)

\* A logout answered by the handler's own code, and what the answer is apart from
\* its cookies.
LogoutServed ==
    /\ last.op \in {"logout", "logout_get"}
    /\ db_ready
    /\ last.raised = "none"

Shape(resp) == <<resp.status, resp.kind, resp.body, resp.location>>

LogoutTarget == IF Present(last.args.continue) THEN last.args.continue ELSE last.args.referer

LogoutTargetValid == Present(LogoutTarget) /\ _is_allowed_redirect_url(LogoutTarget)

\* redirect there, else site root for HTML clients, else the JSON acknowledgment
ShapeByClientSignal ==
    IF LogoutTargetValid THEN Shape(last.resp) = <<302, "redirect", "", LogoutTarget>>
    ELSE IF last.args.accept_html
         THEN Shape(last.resp) = <<302, "redirect", "", OnFirstHost(<<"/">>)>>
    ELSE Shape(last.resp) = <<200, "json", "ok", <<>>>>

\* redirect there, else site root, whatever the client accepts
ShapeAlwaysRedirect ==
    IF LogoutTargetValid THEN Shape(last.resp) = <<302, "redirect", "", LogoutTarget>>
    ELSE Shape(last.resp) = <<302, "redirect", "", OnFirstHost(<<"/">>)>>

\* C15 as stated: POST /logout and GET /logout both answer by the client's signal:
\* a redirect to the continuation target when one is present and passes is_allowed,
\* otherwise a redirect to the site root when the client accepts HTML, otherwise
\* 200 JSON {ok: true}.
LogoutShapeBothEndpoints == LogoutServed => ShapeByClientSignal

\* C15 amended: POST /logout answers by the client's signal as stated; GET /logout
\* redirects to the continuation target when one is present and passes is_allowed
\* and otherwise to the site root, whatever the client accepts, and never answers
\* JSON.
LogoutShapePerEndpoint ==
    LogoutServed =>
        /\ last.op = "logout" => ShapeByClientSignal
        /\ last.op = "logout_get" => ShapeAlwaysRedirect

\* C15 witness: GET /logout of a client that neither names a target nor accepts HTML
LogoutGetPlainClient ==
    /\ LogoutServed
    /\ last.op = "logout_get"
    /\ ~LogoutTargetValid
    /\ ~last.args.accept_html
    /\ last.resp.kind = "redirect"

\* C15, the three answers of POST /logout
LogoutPostToTarget ==
    LogoutServed /\ last.op = "logout" /\ LogoutTargetValid /\ last.resp.location = UrlSub

LogoutPostHtmlRefusedTarget ==
    /\ LogoutServed /\ last.op = "logout"
    /\ last.args.referer = UrlEvil /\ last.args.accept_html
    /\ last.resp.location = OnFirstHost(<<"/">>)

LogoutPostJson ==
    LogoutServed /\ last.op = "logout" /\ last.resp.kind = "json"

\* C16: in login, callback, /me and logout every storage failure is answered 503:
\* when there is no database handle at the time of the request, and when a storage
\* operation raises at any step of the handler.
HandlerOps ==
    {"discord_login", "discord_callback", "discord_callback/token",
     "discord_callback/profile", "me", "logout", "logout_get"}

StorageFailureIs503 ==
    (last.op \in HandlerOps /\ (~db_ready \/ last.raised = "storage")) =>
        last.resp.status = 503

\* C18: a callback with an error parameter reports the provider's failure and does
\* not consume: the state documents (that of the token it carries included), the
\* identities and the sessions are as before, nothing is suspended and no cookie is
\* set.
ErrorParamNoConsumption ==
    (CallbackServed /\ last.args.error /= "") =>
        /\ last.resp = html("Discord error")
        /\ last.resp.cookies = <<>>
        /\ StoresUnchanged
        /\ \A w \in Workers : cb[w].pc /= "idle" => last.args /= cb[w].args

\* C18 witness: the request carries a code and a live state token besides the error
ErrorWithLiveState ==
    /\ CallbackServed
    /\ last.args.error /= ""
    /\ last.args.code /= ""
    /\ LiveIn(oauth_states, last.args.state)
    /\ consumes[last.args.state] = 0

\* C19: one callback takes its steps in the order state consumption, token
\* exchange, profile fetch, identity upsert, session creation, cookie: the exchange
\* starts in the step that consumes the state, the fetch starts only when the
\* exchange has returned a token, identities and sessions change only in the step
\* that follows a returned profile, a session is added only together with the
\* upsert of its identity, and a session cookie is set only for the session just
\* added.
FinishesFetch(w) == cb[w].pc = "fetch" /\ cb'[w].pc = "idle" /\ last'.w = w

CallbackStepOrder ==
    /\ \A w \in Workers :
          /\ (cb'[w].pc = "exchange" /\ cb[w].pc /= "exchange") =>
                /\ cb[w].pc = "idle"
                /\ cb'[w].state_doc /= {}
                /\ cb'[w].state_doc \subseteq oauth_states
                /\ cb'[w].state_doc \cap oauth_states' = {}
                /\ cb'[w].token = {}
          /\ (cb'[w].pc = "fetch" /\ cb[w].pc /= "fetch") =>
                /\ cb[w].pc = "exchange"
                /\ cb'[w].token \subseteq TokenResponses /\ cb'[w].token /= {}
                /\ cb'[w].state_doc = cb[w].state_doc
                /\ last'.raised = "none"
          /\ (cb[w].pc = "exchange" /\ cb'[w].pc = "idle") => last'.raised = "exchange"
    /\ users' /= users =>
          \E w \in Workers : FinishesFetch(w) /\ last'.got \subseteq Profiles /\ last'.got /= {}
    /\ \A d \in sessions' \ sessions :
          /\ \E w \in Workers : FinishesFetch(w)
          /\ \E g \in last'.got : g \in Profiles /\ g.id = d.discord_id
          /\ \E u \in users' \ users : u.discord_id = d.discord_id /\ u.updated_at = now'
    /\ (last' /= last /\ \E i \in 1..Len(last'.resp.cookies) : last'.resp.cookies[i].value /= "") =>
          /\ Len(last'.resp.cookies) = 1
          /\ \E d \in sessions' \ sessions : d.session_id = last'.resp.cookies[1].value

CallbackStepsInOrder == [][CallbackStepOrder]_vars

\* C19 witness: a callback went through all its steps while another one is between
\* its token exchange and its profile fetch
OneThroughOneFetching ==
    /\ last.op = "discord_callback/profile"
    /\ last.raised = "none"
    /\ Len(last.resp.cookies) = 1
    /\ \E w \in Workers : cb[w].pc = "fetch" /\ cb[w].token /= {}

\* C19, the order of upsert and session: the upsert was made, the session was not
UpsertedThenFailed ==
    /\ last.op = "discord_callback/profile"
    /\ last.raised = "storage"
    /\ users /= last.pre.users
    /\ sessions = last.pre.sessions

\* C20: in every state the identities hold at most one record per provider user
\* id, whatever logins and callbacks ran and however they interleaved; an upsert for
\* an id that has a record puts the fetched profile, the token and a later
\* updated_at into that record and keeps its created_at, an upsert for a new id
\* adds one record, and no other record changes.
Upserted ==
    /\ last.op = "discord_callback/profile"
    /\ last.got /= {}
    /\ users /= last.pre.users

OneIdentityPerId ==
    /\ \A u, v \in users : u.discord_id = v.discord_id => u = v
    /\ Upserted =>
          LET g == CHOOSE x \in last.got : TRUE
              old == {u \in last.pre.users : u.discord_id = g.id}
              new == {u \in users : u.discord_id = g.id}
          IN  /\ Cardinality(new) = 1
              /\ users \ new = last.pre.users \ old
              /\ \A n \in new :
                    /\ n.username = g.username /\ n.global_name = g.global_name
                    /\ n.avatar = g.avatar /\ n.discriminator = g.discriminator
                    /\ n.token \in TokenResponses
                    /\ n.updated_at = now
                    /\ \A o \in old : n.created_at = o.created_at /\ n.updated_at > o.updated_at
                    /\ old = {} => n.created_at = n.updated_at

\* C20 witness: a repeated login of a provider user whose profile has changed
RepeatedLoginChangedProfile ==
    /\ Upserted
    /\ \E o \in last.pre.users, n \in users :
          /\ o.discord_id = n.discord_id
          /\ o.username = "alice" /\ n.username = "alice2"
          /\ n.created_at = o.created_at
          /\ n.created_at < n.updated_at

\* C20, two provider users
TwoIdentities ==
    Upserted /\ Cardinality(users) = 2 /\ Cardinality(last.pre.users) = 1

\* What _pick_continue_url makes of the hints of a request.
PickOf(args) ==
    LET v == Selected(args)
    IN  IF v = None THEN FallbackUrl
        ELSE IF IsRelativePath(v) THEN OnFirstHost(v)
        ELSE IF _is_allowed_redirect_url(v) THEN v
        ELSE FallbackUrl

\* C21: the redirect target of a successful callback is the continuation URL stored
\* with the consumed state whenever that value passes is_allowed at the time of the
\* callback, whatever continue, X-Continue and Referer the callback request
\* carries; only when the stored value is missing or is refused is the target what
\* _pick_continue_url makes of the callback request.
StoredContinuePreferred ==
    last.op = "continue_url" =>
        LET stored == last.args.stored
        IN  IF stored /= None /\ _is_allowed_redirect_url(stored)
            THEN last.result = stored
            ELSE last.result = PickOf(last.args)

\* C21 witness: the stored URL is taken although the request names another allowed one
StoredWinsOverRequest ==
    /\ last.op = "continue_url"
    /\ last.args.stored = UrlSub
    /\ last.args.continue = <<"https", ":", "/", "/", "ledd", ".", "live", "/", "dash">>
    /\ env_hosts = DefaultHosts
    /\ last.result = UrlSub

\* C21, second case: the stored URL is refused and the request decides
StoredRefusedRequestDecides ==
    /\ last.op = "continue_url"
    /\ last.args.stored = UrlEvil
    /\ last.args.continue = <<"/", "dash">>
    /\ last.result = OnFirstHost(<<"/", "dash">>)

\* C21, third case: no stored value
StoredMissing ==
    /\ last.op = "continue_url"
    /\ last.args.stored = None
    /\ Selected(last.args) = None
    /\ last.result = FallbackUrl

\* C21 in the handler: the completed callback redirects to what login stored, not to
\* the continue parameter of the callback request
CallbackRedirectsToStored ==
    (CallbackCompleted /\ last.resp.kind = "redirect") =>
        \A d \in last.doc :
            _is_allowed_redirect_url(d.continue) => last.resp.location = d.continue

CallbackStoredDiffersFromRequest ==
    /\ CallbackCompleted
    /\ last.resp.location = UrlSub
    /\ last.args.continue = UrlDash
    /\ \E d \in last.doc : d.continue = UrlSub

\* C22: delete_session returns true exactly when a session with the id existed and
\* was removed; for an id without session it returns false, raises nothing and
\* leaves the sessions as they are; deleting a second time changes nothing more.
DeleteCalled ==
    /\ last.op \in {"logout", "logout_get"}
    /\ db_ready
    /\ last.args.cookie /= ""
    /\ last.raised = "none"

DeleteSessionIdempotent ==
    DeleteCalled =>
        LET named == {d \in last.pre.sessions : d.session_id = last.args.cookie}
            again == delete_session(sessions, last.args.cookie)
        IN  /\ last.got = {named /= {}}
            /\ sessions = last.pre.sessions \ named
            /\ named = {} => sessions = last.pre.sessions /\ last.resp.status \in {200, 302}
            /\ again.sessions = sessions
            /\ ~again.deleted

\* C22 witness: the session of the cookie was removed before, others exist
DeletedASecondTime ==
    /\ DeleteCalled
    /\ last.args.cookie \in gone
    /\ last.got = {FALSE}
    /\ sessions /= {}
    /\ sessions = last.pre.sessions

\* C22, first case: the session existed
DeletedExisting ==
    /\ DeleteCalled
    /\ last.got = {TRUE}
    /\ Cardinality(sessions) + 1 = Cardinality(last.pre.sessions)

\* The states of a login attempt, read off the stores and the history.
Completed(t) == \E d \in created : d.state = t

FailedAt(t, at) == [state |-> t, at |-> at] \in failed

AwaitingCallback(t) == LiveIn(oauth_states, t)

InCallback(t) == \E w \in Workers : cb[w].pc /= "idle" /\ t \in HeldBy(w)

\* C23 as stated: a login attempt moves along INITIATED -> AWAITING_CALLBACK ->
\* COMPLETED or to FAILED; both are terminal, so an attempt for which a callback
\* reported a failure (provider error, missing parameters, upstream failure) is
\* never completed later.
FailedAttemptNeverCompletes ==
    \A t \in Tokens :
        /\ Completed(t) => t \in issued /\ consumes[t] >= 1
        /\ (FailedAt(t, "before_consume") \/ FailedAt(t, "after_consume")) => ~Completed(t)

\* C23 amended: an attempt is completed only after its login and the consumption of
\* its state, and then it is neither awaiting nor in a callback again; an attempt
\* whose callback failed after consuming the state (upstream or storage failure) is
\* never completed, awaiting or in a callback again.  A callback that reports a
\* provider error or missing parameters consumes nothing and leaves the attempt
\* awaiting its callback: a later callback can complete it.
AttemptEndsOnceConsumed ==
    \A t \in Tokens :
        /\ Completed(t) =>
              /\ t \in issued /\ consumes[t] = 1
              /\ ~AwaitingCallback(t) /\ ~InCallback(t)
        /\ FailedAt(t, "after_consume") =>
              /\ consumes[t] = 1
              /\ ~Completed(t) /\ ~AwaitingCallback(t) /\ ~InCallback(t)
        /\ (AwaitingCallback(t) \/ InCallback(t)) => t \in issued

\* C23 witness: one attempt was refused before consumption and completed later,
\* another one failed after consumption
RefusedThenCompleted ==
    \E t, u \in Tokens :
        /\ FailedAt(t, "before_consume") /\ Completed(t)
        /\ FailedAt(u, "after_consume") /\ ~Completed(u)

\* C24: for every state token, over all callbacks that carry it, one after another
\* or at once, at most one session is ever created and at most one response sets a
\* session cookie: a response sets the cookie only for the one session of its
\* token, in the step that creates it.
SessionsOf(t) == {d \in created : d.state = t}

SetsSessionCookie(resp) ==
    \E i \in 1..Len(resp.cookies) : resp.cookies[i].value /= ""

OneSessionPerToken ==
    /\ \A t \in Tokens : Cardinality(SessionsOf(t)) <= 1
    /\ \A t \in Tokens : Cardinality(SessionsOf(t)) <= consumes[t]
    /\ (last.op \in HandlerOps /\ SetsSessionCookie(last.resp)) =>
          /\ last.op = "discord_callback/profile"
          /\ Len(last.resp.cookies) = 1
          /\ \A d \in SessionsOf(last.args.state) :
                /\ d.session_id = last.resp.cookies[1].value
                /\ \A x \in last.pre.sessions : x.session_id /= d.session_id
          /\ SessionsOf(last.args.state) /= {}

\* C24 witness: the token has its session; one more callback with it got nothing
CallbackAfterSessionOfToken ==
    /\ ConsumeAttempt
    /\ Cardinality(SessionsOf(last.args.state)) = 1
    /\ last.resp = InvalidState
    /\ last.resp.cookies = <<>>
    /\ Cardinality(created) = Cardinality(Tokens)

\* C25: the state is consumed before the upstream calls and is never put back: while
\* a callback is at its awaits and after it failed there or at the upsert or the
\* session creation (500), the state document is gone, and a retry of the callback
\* with the same state is answered 400.
FailedAfterConsume ==
    /\ last.op \in {"discord_callback/token", "discord_callback/profile"}
    /\ last.raised /= "none"

ConsumedStateNotRestored ==
    /\ \A t \in Tokens : InCallback(t) => ~LiveIn(oauth_states, t)
    /\ \A t \in Tokens : FailedAt(t, "after_consume") => ~LiveIn(oauth_states, t)
    /\ FailedAfterConsume =>
          /\ last.resp.status = 500
          /\ oauth_states = last.pre.oauth_states
          /\ FailedAt(last.args.state, "after_consume")
    /\ (ConsumeAttempt /\ FailedAt(last.args.state, "after_consume")) =>
          /\ last.resp = InvalidState
          /\ StoresUnchanged

\* C25 witness: the retry of a callback whose token exchange had failed
RetryAfterFailedCallback ==
    /\ ConsumeAttempt
    /\ FailedAt(last.args.state, "after_consume")
    /\ ~Completed(last.args.state)
    /\ last.resp = InvalidState

\* C25, the store failures: the upsert or the session creation raised
StateGoneAfterStoreFailure ==
    /\ FailedAfterConsume
    /\ last.raised = "storage"
    /\ ~LiveIn(oauth_states, last.args.state)

\* C26: a logout removes at most the session its cookie names: every other session,
\* those of the same identity included, stays and resolves to its identity as
\* before, and identities and state documents are unchanged.
LogoutRemovesOnlyNamed ==
    last.op \in {"logout", "logout_get"} =>
        /\ sessions \subseteq last.pre.sessions
        /\ \A d \in last.pre.sessions \ sessions : d.session_id = last.args.cookie
        /\ Cardinality(last.pre.sessions \ sessions) <= 1
        /\ \A d \in last.pre.sessions :
              d.session_id /= last.args.cookie =>
                  /\ d \in sessions
                  /\ get_user_by_session(sessions, users, d.session_id)
                        = get_user_by_session(last.pre.sessions, last.pre.users, d.session_id)
                  /\ \E u \in get_user_by_session(sessions, users, d.session_id) :
                        u.discord_id = d.discord_id
        /\ users = last.pre.users
        /\ oauth_states = last.pre.oauth_states

\* C26 witness: of two sessions of one identity the logout removed one
OtherSessionOfIdentityStays ==
    /\ last.op \in {"logout", "logout_get"}
    /\ \E d \in last.pre.sessions \ sessions, x \in sessions :
          /\ d.session_id = last.args.cookie
          /\ x.discord_id = d.discord_id
          /\ get_user_by_session(sessions, users, x.session_id) /= {}

\* C11: /me answers 401 when no session cookie is sent and when the cookie's
\* session id does not resolve (session absent or expired, or its identity
\* missing); when it resolves, the answer is 200 with exactly the public profile
\* fields of that identity (id, username, global name, avatar) and nothing of
\* its credentials.
PublicFields == {"discord_id", "username", "global_name", "avatar"}

WhoamiPublicOnly ==
    (last.op = "me" /\ db_ready /\ last.raised = "none") =>
        LET sess == {d \in sessions : d.session_id = last.args.cookie}
            owner == {u \in users : \E d \in sess : u.discord_id = d.discord_id}
        IN  IF last.args.cookie = "" \/ sess = {} \/ owner = {}
            THEN /\ last.resp.status = 401
                 /\ last.resp.data = {}
            ELSE /\ last.resp.status = 200
                 /\ Cardinality(last.resp.data) = 1
                 /\ \A v \in last.resp.data :
                       /\ DOMAIN v = PublicFields
                       /\ \E u \in owner : \A f \in PublicFields : v[f] = u[f]
                       /\ \A u \in users : \A f \in DOMAIN v :
                             v[f] /= u.token.access_token /\ v[f] /= u.token.refresh_token

\* C11 witness: /me resolved a session whose identity holds tokens
WhoamiResolved ==
    /\ last.op = "me"
    /\ last.resp.status = 200
    /\ \E u \in users, v \in last.resp.data :
          u.discord_id = v.discord_id /\ u.token.access_token = "a1"

\* C11, second case: the cookie names a session that expired or was deleted
WhoamiAfterSessionGone ==
    /\ last.op = "me"
    /\ last.args.cookie \in gone
    /\ last.resp = json("Invalid session", 401)

=============================================================================
